---- MODULE Spec2Model ----
(***************************************************************************)
(* A model of the DPR report-generation pipeline of msme-backend:          *)
(* generation.py (classifier, section provider, renderers, orchestrator),  *)
(* finance.py (five-year projection) and templates.py (section outlines).  *)
(*                                                                         *)
(* Numbers.  Python computes the projection in binary floating point.      *)
(* The model computes it in exact decimal fixed point: capacity is a whole *)
(* number, the unit economics (price, variable cost, fixed overheads) are  *)
(* held in tenths, growth factors in hundredths, and every cell of the     *)
(* projection table is held in thousandths ("milli").  The text written to *)
(* the narrative table by the format ",.2f" is held as the number of       *)
(* hundredths ("cents") that the text denotes.                             *)
(***************************************************************************)
EXTENDS Integers, Sequences, FiniteSets, TLC

(***************************************************************************)
(* Python values and dictionaries                                          *)
(***************************************************************************)
\* The value None.
None == [t |-> "none", v |-> 0]

\* An int object.
PyInt(n) == [t |-> "int", v |-> n]

\* A str object.
PyStr(s) == [t |-> "str", v |-> s]

\* dict.get(key, default): a dict is a function whose DOMAIN is its key set.
Get(d, key, default) == IF key \in DOMAIN d THEN d[key] ELSE default

\* Python truth value of an object: None, 0 and "" are falsy.
Truthy(x) ==
    CASE x.t = "none" -> FALSE
      [] x.t = "int"  -> x.v # 0
      [] x.t = "str"  -> x.v # ""
      [] OTHER        -> TRUE

\* The expression  a or b.
PyOr(a, b) == IF Truthy(a) THEN a ELSE b

(***************************************************************************)
(* templates.py                                                            *)
(***************************************************************************)
PROJECT_TEMPLATES ==
    [ agro_processing |->
        [ name |-> "Agro Processing Plant",
          sections |-> << "Executive Summary", "Project Background",
                          "Technical Feasibility", "Market Analysis",
                          "Operations Plan", "Financial Projections",
                          "Risk & Mitigation", "Conclusion" >> ],
      ev_charging |->
        [ name |-> "EV Charging Station",
          sections |-> << "Executive Summary", "Site Analysis",
                          "Technology & Equipment", "Market & Demand",
                          "Financial Model", "Operations",
                          "Environmental Impact", "Annexures" >> ],
      default |->
        [ name |-> "General Project",
          sections |-> << "Executive Summary", "Project Description",
                          "Market Analysis", "Implementation Plan",
                          "Financials", "Annexures" >> ] ]

(***************************************************************************)
(* generation.py: classify_project                                         *)
(* A str is a sequence of one-character strings.                           *)
(***************************************************************************)
UpperLetters == << "A","B","C","D","E","F","G","H","I","J","K","L","M",
                   "N","O","P","Q","R","S","T","U","V","W","X","Y","Z" >>

LowerLetters == << "a","b","c","d","e","f","g","h","i","j","k","l","m",
                   "n","o","p","q","r","s","t","u","v","w","x","y","z" >>

\* str.lower() on one character.
LowerChar(c) ==
    IF \E k \in DOMAIN UpperLetters : UpperLetters[k] = c
    THEN LowerLetters[CHOOSE k \in DOMAIN UpperLetters : UpperLetters[k] = c]
    ELSE c

\* str.lower().
Lower(s) == [k \in DOMAIN s |-> LowerChar(s[k])]

\* The expression  kw in d  (substring test).
Contains(d, kw) ==
    \E off \in 0..(Len(d) - Len(kw)) : SubSeq(d, off + 1, off + Len(kw)) = kw

kw_rice == << "r","i","c","e" >>

kw_agri == << "a","g","r","i" >>

kw_processing == << "p","r","o","c","e","s","s","i","n","g" >>

kw_farm == << "f","a","r","m" >>

kw_ev == << "e","v" >>

kw_charging == << "c","h","a","r","g","i","n","g" >>

kw_electric_vehicle ==
    << "e","l","e","c","t","r","i","c"," ","v","e","h","i","c","l","e" >>

\* A mutant of classify_project: the two keyword tests in the other order.
classify_project_ev_first(short_description) ==
    LET d == Lower(short_description) IN
    IF Contains(d, kw_ev) \/ Contains(d, kw_charging)
          \/ Contains(d, kw_electric_vehicle)
    THEN "ev_charging"
    ELSE IF Contains(d, kw_rice) \/ Contains(d, kw_agri)
              \/ Contains(d, kw_processing) \/ Contains(d, kw_farm)
         THEN "agro_processing"
         ELSE "default"

classify_project(short_description) ==
    LET d == Lower(short_description) IN
    IF Contains(d, kw_rice) \/ Contains(d, kw_agri)
          \/ Contains(d, kw_processing) \/ Contains(d, kw_farm)
    THEN "agro_processing"
    ELSE IF Contains(d, kw_ev) \/ Contains(d, kw_charging)
              \/ Contains(d, kw_electric_vehicle)
         THEN "ev_charging"
         ELSE "default"

\* PROJECT_TEMPLATES.get(project_type, PROJECT_TEMPLATES["default"])
template_for(project_type) ==
    Get(PROJECT_TEMPLATES, project_type, PROJECT_TEMPLATES["default"])

\* fetch_external_data_stub: fixed values, whatever the location
\* (avg_power_cost_per_kwh 8.0 is held as 8).
fetch_external_data_stub(location) ==
    [ population_nearby |-> 120000,
      avg_power_cost_per_kwh |-> 8,
      land_rent_per_acre |-> 150000 ]

(***************************************************************************)
(* generation.py: generate_sections_with_openai                            *)
(* The returned dict is a sequence of [key, value] entries in insertion    *)
(* order.  `available` is  OPENAI_AVAILABLE and os.getenv("OPENAI_API_KEY")*)
(* and `failAt` is the environment: the number of the ChatCompletion call  *)
(* that raises (0: the service answers every call).                        *)
(***************************************************************************)
DictKeys(content) == [k \in DOMAIN content |-> content[k].key]

\* content[key] = value: an existing key keeps its place, a new key goes last.
DictSet(content, key, value) ==
    IF \E k \in DOMAIN content : content[k].key = key
    THEN [k \in DOMAIN content |->
            IF content[k].key = key THEN [key |-> key, value |-> value]
            ELSE content[k]]
    ELSE Append(content, [key |-> key, value |-> value])

\* The f-string of the fallback branch.
placeholder_text(sec, project_payload) ==
    [ kind |-> "placeholder", sec |-> sec,
      title |-> Get(project_payload, "title", None),
      description |-> Get(project_payload, "short_description", None) ]

\* resp.choices[0].message.content.strip() for the prompt of section sec.
generated_text(sec, project_payload) ==
    [ kind |-> "generated", sec |-> sec,
      title |-> Get(project_payload, "title", None),
      description |-> Get(project_payload, "short_description", None) ]

\* The for loop of the generative branch from section k on: an exception of
\* ChatCompletion.create is not caught, so it ends the loop and the function.
RECURSIVE generative_loop(_, _, _, _, _)
generative_loop(sections, project_payload, failAt, k, content) ==
    IF k > Len(sections)
    THEN [raised |-> FALSE, exc |-> "", content |-> content, requested |-> k - 1]
    ELSE IF k = failAt
         THEN [raised |-> TRUE, exc |-> "OpenAIError", content |-> << >>,
               requested |-> k]
         ELSE generative_loop(sections, project_payload, failAt, k + 1,
                  DictSet(content, sections[k],
                          generated_text(sections[k], project_payload)))

\* The for loop of the fallback branch from section k on.
RECURSIVE placeholder_loop(_, _, _, _)
placeholder_loop(sections, project_payload, k, content) ==
    IF k > Len(sections)
    THEN [raised |-> FALSE, exc |-> "", content |-> content, requested |-> 0]
    ELSE placeholder_loop(sections, project_payload, k + 1,
             DictSet(content, sections[k],
                     placeholder_text(sections[k], project_payload)))

\* A mutant of generate_sections_with_openai: the fallback loop skips the
\* first section of the outline.
generate_sections_skip_first(sections, project_payload, available, failAt) ==
    IF available
    THEN generative_loop(sections, project_payload, failAt, 1, << >>)
    ELSE placeholder_loop(sections, project_payload, 2, << >>)

generate_sections_with_openai(sections, project_payload, available, failAt) ==
    IF available
    THEN generative_loop(sections, project_payload, failAt, 1, << >>)
    ELSE placeholder_loop(sections, project_payload, 1, << >>)

(***************************************************************************)
(* finance.py: generate_financials                                         *)
(***************************************************************************)
DEFAULT_CAPACITY == 1000

year_count == 5

DEFAULT_PRICE_PER_UNIT == 100

DEFAULT_VARIABLE_COST == 40

DEFAULT_FIXED_ANNUAL == 200000

DEFAULT_CAPEX == 5000000

DEFAULT_LABOR == 500000

DEFAULT_MAINTENANCE == 200000

DEFAULT_UTILITIES == 150000

\* The growth rates 0.05, 0.03 and 0.04, in hundredths.
REVENUE_GROWTH == 5

VARIABLE_COST_GROWTH == 3

FIXED_COST_GROWTH == 4

\* A whole amount in tenths, the unit of the values of "additional".
Tenths(n) == 10 * n

\* f"Year {i+1}"
YearLabel(i) == "Year " \o ToString(i + 1)

\* [f(i) for i in range(year_count)] as a sequence indexed from 1.
Years == 1..year_count

\* capacity * price_per_unit * (1 + 0.05 * i), in milli.
revenue_at(capacity, price_per_unit, i) ==
    capacity * price_per_unit * (100 + REVENUE_GROWTH * i)

\* capacity * variable_cost_per_unit * (1 + 0.03 * i), in milli.
variable_cost_at(capacity, variable_cost_per_unit, i) ==
    capacity * variable_cost_per_unit * (100 + VARIABLE_COST_GROWTH * i)

\* A mutant of fixed_cost_at: the variable-cost growth rate copied over.
fixed_cost_at_wrong_rate(fixed_annual_overheads, i) ==
    fixed_annual_overheads * (100 + VARIABLE_COST_GROWTH * i)

\* fixed_annual_overheads * (1 + 0.04 * i), in milli.
fixed_cost_at(fixed_annual_overheads, i) ==
    fixed_annual_overheads * (100 + FIXED_COST_GROWTH * i)

DF_COLUMNS == << "Revenue", "Variable Cost", "Fixed Cost", "EBITDA" >>

generate_financials(basic_inputs) ==
    LET capacity == PyOr(Get(basic_inputs, "capacity", None),
                         PyInt(DEFAULT_CAPACITY))
        currency == Get(basic_inputs, "currency", "INR")
        additional == Get(basic_inputs, "additional", << >>)
        price_per_unit ==
            Get(additional, "price_per_unit", Tenths(DEFAULT_PRICE_PER_UNIT))
        variable_cost_per_unit ==
            Get(additional, "variable_cost", Tenths(DEFAULT_VARIABLE_COST))
        fixed_annual_overheads ==
            Get(additional, "fixed_annual", Tenths(DEFAULT_FIXED_ANNUAL))
        years == [k \in Years |-> YearLabel(k - 1)]
        revenue == [k \in Years |->
                       revenue_at(capacity.v, price_per_unit, k - 1)]
        variable_cost == [k \in Years |->
                       variable_cost_at(capacity.v, variable_cost_per_unit, k - 1)]
        fixed_cost == [k \in Years |->
                       fixed_cost_at(fixed_annual_overheads, k - 1)]
        ebitda == [k \in Years |->
                       revenue[k] - variable_cost[k] - fixed_cost[k]]
        meta == [ capex |-> Get(additional, "capex", Tenths(DEFAULT_CAPEX)),
                  opex_breakdown |->
                    [ labor |-> Get(additional, "labor", Tenths(DEFAULT_LABOR)),
                      maintenance |->
                        Get(additional, "maintenance", Tenths(DEFAULT_MAINTENANCE)),
                      utilities |->
                        Get(additional, "utilities", Tenths(DEFAULT_UTILITIES)) ],
                  currency |-> currency ]
    IN  \* a str times a float raises TypeError in the first list comprehension
        IF capacity.t # "int"
        THEN [ raised |-> TRUE, exc |-> "TypeError" ]
        ELSE [ raised |-> FALSE, exc |-> "",
               df |-> [ index |-> years,
                        columns |-> DF_COLUMNS,
                        data |-> ( "Revenue" :> revenue
                                   @@ "Variable Cost" :> variable_cost
                                   @@ "Fixed Cost" :> fixed_cost
                                   @@ "EBITDA" :> ebitda ) ],
               meta |-> meta ]

(***************************************************************************)
(* generation.py: the renderers                                            *)
(***************************************************************************)
\* plot_financials: df.plot draws one line per column of df over its index.
plot_financials(df) ==
    [ title |-> "Revenue & EBITDA (projection)",
      ylabel |-> df.columns[1],
      x |-> df.index,
      lines |-> df.data ]

\* A mutant of to_excel: the sheet is written from the table transposed in
\* its first two columns.
to_excel_swapped_columns(df) ==
    [ header |-> << "Year" >> \o df.columns,
      rows |-> [k \in DOMAIN df.index |->
                  [ label |-> df.index[k],
                    cells |-> [j \in DOMAIN df.columns |->
                                 df.data[df.columns[IF j = 1 THEN 2
                                                    ELSE IF j = 2 THEN 1
                                                    ELSE j]][k]] ]] ]

\* df.to_excel: the index column "Year", then one column per field, the
\* cells being the table's numbers as they are.
to_excel(df) ==
    [ header |-> << "Year" >> \o df.columns,
      rows |-> [k \in DOMAIN df.index |->
                  [ label |-> df.index[k],
                    cells |-> [j \in DOMAIN df.columns |->
                                 df.data[df.columns[j]][k]] ]] ]

\* f"{x:,.2f}": x (milli) rounded to the nearest cent.  Python rounds the
\* binary value of the float, so a decimal tie (x ends in 5) goes up or down
\* with the float's representation error: `up` says which.
format_2f(x, up) ==
    LET q == x \div 10
        r == x % 10
    IN  IF r < 5 THEN q
        ELSE IF r > 5 THEN q + 1
        ELSE IF up THEN q + 1 ELSE q

\* The cells <<row, column>> of df whose value is a decimal tie.
TieCells(df) ==
    { c \in (DOMAIN df.index) \X (DOMAIN df.columns) :
        df.data[df.columns[c[2]]][c[1]] % 10 = 5 }

\* create_docx: title block, one heading and body per entry of sections,
\* then the financial table.  `up` is the set of tie cells rounded up.
create_docx(project_payload, sections, df, meta, up) ==
    [ heading |-> Get(project_payload, "title", None),
      location |-> PyOr(Get(project_payload, "location", None), PyStr("N/A")),
      currency |-> Get(meta, "currency", "INR"),
      sections |-> [k \in DOMAIN sections |->
                      [ heading |-> sections[k].key,
                        body |-> sections[k].value ]],
      table_header |-> << "Year" >> \o df.columns,
      table_rows |-> [k \in DOMAIN df.index |->
                  [ label |-> df.index[k],
                    cells |-> [j \in DOMAIN df.columns |->
                                 format_2f(df.data[df.columns[j]][k],
                                           <<k, j>> \in up)] ]] ]

\* create_pdf_from_docx_and_chart: a title from the docx file's name and the
\* image read back from the file at chart_png.
create_pdf_from_docx_and_chart(docx_path, chart_png, disk) ==
    [ title |-> << "DPR - ", docx_path >>,
      image |-> disk[chart_png].content,
      note |-> "Note: Full textual DPR is included in the .docx." ]

(***************************************************************************)
(* generation.py: generate_dpr_package, one process per call               *)
(***************************************************************************)
\* The number of calls of generate_dpr_package, which may interleave.
NumRuns == 2

\* The number of values uuid4().hex[:8] is drawn from.
NumUids == 2

Runs == 1..NumRuns

Uids == 1..NumUids

VARIABLES
    openai_ready,   \* OPENAI_AVAILABLE and os.getenv("OPENAI_API_KEY")
    pc,             \* pc[r]: the step run r makes next
    payload,        \* payload[r]: the argument of the call
    local,          \* local[r]: the local variables of the call
    dirs,           \* the directories under OUTPUT_DIR, each with the run
                    \* whose mkdir created it
    files,          \* the files under OUTPUT_DIR, each with its content and
                    \* the run that wrote it last
    outcome,        \* outcome[r]: what the caller of run r receives
    log             \* log[r]: the steps run r has completed, in order

orch_vars == << openai_ready, pc, payload, local, dirs, files, outcome, log >>

\* The statements of generate_dpr_package in program order (lines 143-172).
Steps == << "uid", "classify", "template", "external", "financials",
            "sections", "mkdir", "chart", "excel", "docx", "pdf", "return" >>

\* A mutant of StepAfter: the summary is built before the narrative.
StepAfter_summary_first(step) ==
    CASE step = "excel" -> "pdf"
      [] step = "pdf" -> "docx"
      [] step = "docx" -> "return"
      [] step = "return" -> "returned"
      [] OTHER -> Steps[1 + CHOOSE k \in DOMAIN Steps : Steps[k] = step]

\* The statement that follows `step` when it does not raise.
StepAfter(step) ==
    IF step = "return" THEN "returned"
    ELSE Steps[1 + CHOOSE k \in DOMAIN Steps : Steps[k] = step]

\* The briefs the orchestrator is called with: call r is given
\* Briefs[r] (the list is gone through again after its last brief).
Briefs ==
    << \* "Rice Mill", capacity 2000, no overrides
       [ title |-> PyStr("Rice Mill"),
         short_description |-> << "r","i","c","e"," ","p","r","o","c","e","s",
                                  "s","i","n","g"," ","u","n","i","t" >>,
         location |-> PyStr("Guntur"),
         capacity |-> PyInt(2000) ],
       \* no title; unit economics 1.5, 0.1 and 1.0 for one unit
       [ short_description |-> << "E","V"," ","h","u","b" >>,
         capacity |-> PyInt(1),
         additional |-> [ price_per_unit |-> 15, variable_cost |-> 1,
                          fixed_annual |-> 10 ] ],
       \* a capacity that is no number
       [ title |-> PyStr("Shop"),
         capacity |-> PyStr("abc") ] >>

BriefOf(r) == Briefs[((r - 1) % Len(Briefs)) + 1]

NoDf == [ index |-> << >>, columns |-> << >>, data |-> << >> ]

NoLocals ==
    [ uid |-> 0, project_type |-> "", template |-> [name |-> "", sections |-> << >>],
      external |-> << >>, df |-> NoDf, meta |-> << >>, sections |-> << >> ]

NoOutcome == [ kind |-> "none" ]

\* The exception leaves generate_dpr_package as it was raised.
Raised(exc) == [ kind |-> "exception", exc |-> exc ]

\* out_dir / f"{uid}{suffix}"
PathOf(uid, suffix) == << uid, suffix >>

InitOrchestrator ==
    /\ openai_ready \in BOOLEAN
    /\ pc = [r \in Runs |-> "uid"]
    /\ payload = [r \in Runs |-> BriefOf(r)]
    /\ local = [r \in Runs |-> NoLocals]
    /\ dirs = << >>
    /\ files = << >>
    /\ outcome = [r \in Runs |-> NoOutcome]
    /\ log = [r \in Runs |-> << >>]

\* Run r completed `step` and goes on with the next statement.
Advance(r, step) ==
    /\ pc' = [pc EXCEPT ![r] = StepAfter(step)]
    /\ log' = [log EXCEPT ![r] = Append(@, step)]

\* Run r ends with an exception raised in `step`.
Raise(r, exc) ==
    /\ pc' = [pc EXCEPT ![r] = "raised"]
    /\ outcome' = [outcome EXCEPT ![r] = Raised(exc)]
    /\ UNCHANGED log

\* The file at path is written by run r, replacing what was there.
WriteFile(r, path, content) ==
    files' = [p \in (DOMAIN files) \cup {path} |->
                IF p = path THEN [by |-> r, content |-> content] ELSE files[p]]

\* line 143: uid = uuid.uuid4().hex[:8]
DrawUid(r) ==
    /\ pc[r] = "uid"
    /\ \E u \in Uids : local' = [local EXCEPT ![r].uid = u]
    /\ Advance(r, "uid")
    /\ UNCHANGED << openai_ready, payload, dirs, files, outcome >>

\* line 144
Classify(r) ==
    /\ pc[r] = "classify"
    /\ local' = [local EXCEPT ![r].project_type =
                    classify_project(Get(payload[r], "short_description", << >>))]
    /\ Advance(r, "classify")
    /\ UNCHANGED << openai_ready, payload, dirs, files, outcome >>

\* line 145
LookupTemplate(r) ==
    /\ pc[r] = "template"
    /\ local' = [local EXCEPT ![r].template = template_for(local[r].project_type)]
    /\ Advance(r, "template")
    /\ UNCHANGED << openai_ready, payload, dirs, files, outcome >>

\* line 146
FetchExternal(r) ==
    /\ pc[r] = "external"
    /\ local' = [local EXCEPT ![r].external =
                    fetch_external_data_stub(Get(payload[r], "location", PyStr("")))]
    /\ Advance(r, "external")
    /\ UNCHANGED << openai_ready, payload, dirs, files, outcome >>

\* line 147
Financials(r) ==
    /\ pc[r] = "financials"
    /\ LET res == generate_financials(payload[r]) IN
       IF res.raised
       THEN /\ Raise(r, res.exc)
            /\ UNCHANGED local
       ELSE /\ local' = [local EXCEPT ![r].df = res.df, ![r].meta = res.meta]
            /\ Advance(r, "financials")
            /\ UNCHANGED outcome
    /\ UNCHANGED << openai_ready, payload, dirs, files >>

\* line 150
FillSections(r) ==
    /\ pc[r] = "sections"
    /\ \E failAt \in 0..Len(local[r].template.sections) :
         LET res == generate_sections_with_openai(local[r].template.sections,
                        payload[r], openai_ready, failAt) IN
         IF res.raised
         THEN /\ Raise(r, res.exc)
              /\ UNCHANGED local
         ELSE /\ local' = [local EXCEPT ![r].sections = res.content]
              /\ Advance(r, "sections")
              /\ UNCHANGED outcome
    /\ UNCHANGED << openai_ready, payload, dirs, files >>

\* lines 153-158: out_dir.mkdir(parents=True, exist_ok=True) and the paths
Mkdir(r) ==
    /\ pc[r] = "mkdir"
    /\ dirs' = IF local[r].uid \in DOMAIN dirs THEN dirs
               ELSE dirs @@ (local[r].uid :> r)
    /\ Advance(r, "mkdir")
    /\ UNCHANGED << openai_ready, payload, local, files, outcome >>

\* line 161: plot_financials(df, chart_png); the write may fail
Chart(r) ==
    /\ pc[r] = "chart"
    /\ \/ /\ WriteFile(r, PathOf(local[r].uid, "_finance.png"),
                       plot_financials(local[r].df))
          /\ Advance(r, "chart")
          /\ UNCHANGED outcome
       \/ /\ Raise(r, "OSError")
          /\ UNCHANGED files
    /\ UNCHANGED << openai_ready, payload, local, dirs >>

\* line 164: df.to_excel(excel_path); the write may fail
Excel(r) ==
    /\ pc[r] = "excel"
    /\ \/ /\ WriteFile(r, PathOf(local[r].uid, "_financials.xlsx"),
                       to_excel(local[r].df))
          /\ Advance(r, "excel")
          /\ UNCHANGED outcome
       \/ /\ Raise(r, "OSError")
          /\ UNCHANGED files
    /\ UNCHANGED << openai_ready, payload, local, dirs >>

\* line 167: create_docx(payload, sections, df, meta, docx_path); the write
\* may fail
Docx(r) ==
    /\ pc[r] = "docx"
    /\ \/ /\ \E up \in SUBSET TieCells(local[r].df) :
                WriteFile(r, PathOf(local[r].uid, "_dpr.docx"),
                          create_docx(payload[r], local[r].sections,
                                      local[r].df, local[r].meta, up))
          /\ Advance(r, "docx")
          /\ UNCHANGED outcome
       \/ /\ Raise(r, "OSError")
          /\ UNCHANGED files
    /\ UNCHANGED << openai_ready, payload, local, dirs >>

\* line 170: create_pdf_from_docx_and_chart(docx_path, chart_png, pdf_path);
\* the write may fail
Pdf(r) ==
    /\ pc[r] = "pdf"
    /\ \/ /\ WriteFile(r, PathOf(local[r].uid, "_summary.pdf"),
                       create_pdf_from_docx_and_chart(
                           PathOf(local[r].uid, "_dpr.docx"),
                           PathOf(local[r].uid, "_finance.png"), files))
          /\ Advance(r, "pdf")
          /\ UNCHANGED outcome
       \/ /\ Raise(r, "OSError")
          /\ UNCHANGED files
    /\ UNCHANGED << openai_ready, payload, local, dirs >>

\* lines 172-179
Return(r) ==
    /\ pc[r] = "return"
    /\ outcome' = [outcome EXCEPT ![r] =
          [ kind |-> "package",
            uid |-> local[r].uid,
            project_type |-> local[r].project_type,
            template_name |-> local[r].template.name,
            docx |-> PathOf(local[r].uid, "_dpr.docx"),
            pdf_summary |-> PathOf(local[r].uid, "_summary.pdf"),
            excel_financials |-> PathOf(local[r].uid, "_financials.xlsx") ]]
    /\ pc' = [pc EXCEPT ![r] = StepAfter("return")]
    /\ log' = [log EXCEPT ![r] = Append(@, "return")]
    /\ UNCHANGED << openai_ready, payload, local, dirs, files >>

(***************************************************************************)
(* Calls of the pure functions: `call` is the function and its arguments,  *)
(* `ret` what the call gave ("pending" until it is made).                  *)
(***************************************************************************)
VARIABLES call, ret

Pending == [state |-> "pending"]

NoCall == [fn |-> "none"]

\* --- inputs of generate_financials --------------------------------------
\* Whole capacities tried are -1..MaxCapacity and 2000.
MaxCapacity == 3

\* Overrides tried are 0..MaxOverrideTenths tenths (0.0, 0.1, ...).
MaxOverrideTenths == 3

\* The values of payload["capacity"]: None, numbers, and strings.
CapacityValues ==
    {None, PyStr(""), PyStr("abc"), PyInt(2000)}
        \cup {PyInt(n) : n \in -1..MaxCapacity}

\* An optional dict entry: <<FALSE, _>> is an absent key.
Optional(S) == {<<FALSE, 0>>} \cup {<<TRUE, x>> : x \in S}

\* The dict {key: opt[2]} when the entry is present, {} when it is not.
Entry(key, opt) == IF opt[1] THEN key :> opt[2] ELSE << >>

OverrideValues == Optional(0..MaxOverrideTenths)

\* Briefs for generate_financials: capacity present or not, each override
\* present or not.
FinanceBriefs ==
    { Entry("capacity", c)
        @@ [additional |-> Entry("price_per_unit", p)
                             @@ Entry("variable_cost", v)
                             @@ Entry("fixed_annual", f)]
      : c \in Optional(CapacityValues),
        p \in OverrideValues, v \in OverrideValues, f \in OverrideValues }

InitFinance ==
    /\ call \in {[fn |-> "generate_financials", basic_inputs |-> b] :
                    b \in FinanceBriefs}
    /\ ret = Pending

ApplyFinancials ==
    /\ call.fn = "generate_financials"
    /\ ret = Pending
    /\ ret' = generate_financials(call.basic_inputs)
    /\ UNCHANGED call

\* --- inputs of classify_project -----------------------------------------
\* Descriptions are up to MaxFragments fragments, concatenated.
MaxFragments == 3

Fragments ==
    { << "R","i","c","e" >>, << "A","G","R","I" >>, << "f","a","r","m" >>,
      << "P","r","o","c","e","s","s","i","n","g" >>,
      << "E","V" >>, << "e" >>, << "V" >>,
      << "C","h","a","r","g","i","n","g" >>,
      << "E","l","e","c","t","r","i","c" >>, << " " >>,
      << "V","e","h","i","c","l","e" >>, << "s","h","o","p" >> }

RECURSIVE Descriptions(_)
Descriptions(n) ==
    IF n = 0 THEN { << >> }
    ELSE LET shorter == Descriptions(n - 1)
         IN  shorter \cup {d \o f : d \in shorter, f \in Fragments}

InitClassify ==
    /\ call \in {[fn |-> "classify_project", short_description |-> d] :
                    d \in Descriptions(MaxFragments)}
    /\ ret = Pending

ApplyClassify ==
    /\ call.fn = "classify_project"
    /\ ret = Pending
    /\ ret' = [project_type |-> classify_project(call.short_description)]
    /\ UNCHANGED call

\* --- inputs of generate_sections_with_openai ----------------------------
\* Outlines are the three templates' and every list of up to MaxOutlineLen
\* titles (repeated titles included).
MaxOutlineLen == 2

OutlineTitles == {"Executive Summary", "Annexures"}

RECURSIVE TitleLists(_)
TitleLists(n) ==
    IF n = 0 THEN { << >> }
    ELSE LET shorter == TitleLists(n - 1)
         IN  shorter \cup {Append(l, t) : l \in shorter, t \in OutlineTitles}

Outlines ==
    {PROJECT_TEMPLATES[t].sections : t \in DOMAIN PROJECT_TEMPLATES}
        \cup TitleLists(MaxOutlineLen)

SectionBriefs == {Briefs[k] : k \in DOMAIN Briefs}

InitSections ==
    /\ call \in UNION {
          {[fn |-> "generate_sections_with_openai", sections |-> o,
            project_payload |-> b, available |-> a, failAt |-> k] :
              b \in SectionBriefs, a \in BOOLEAN, k \in 0..Len(o)}
          : o \in Outlines }
    /\ ret = Pending

ApplySections ==
    /\ call.fn = "generate_sections_with_openai"
    /\ ret = Pending
    /\ ret' = generate_sections_with_openai(call.sections, call.project_payload,
                                            call.available, call.failAt)
    /\ UNCHANGED call

(***************************************************************************)
(* Specifications                                                          *)
(***************************************************************************)
vars == << openai_ready, pc, payload, local, dirs, files, outcome, log,
           call, ret >>

\* No run of the orchestrator: the state of the pure-function checks.
NoRuns ==
    /\ openai_ready = FALSE
    /\ pc = [r \in Runs |-> "returned"]
    /\ payload = [r \in Runs |-> << >>]
    /\ local = [r \in Runs |-> NoLocals]
    /\ dirs = << >>
    /\ files = << >>
    /\ outcome = [r \in Runs |-> NoOutcome]
    /\ log = [r \in Runs |-> << >>]

Init ==
    /\ InitOrchestrator
    /\ call = NoCall
    /\ ret = Pending

Next ==
    \E r \in Runs :
        \/ DrawUid(r) /\ UNCHANGED << call, ret >>
        \/ Classify(r) /\ UNCHANGED << call, ret >>
        \/ LookupTemplate(r) /\ UNCHANGED << call, ret >>
        \/ FetchExternal(r) /\ UNCHANGED << call, ret >>
        \/ Financials(r) /\ UNCHANGED << call, ret >>
        \/ FillSections(r) /\ UNCHANGED << call, ret >>
        \/ Mkdir(r) /\ UNCHANGED << call, ret >>
        \/ Chart(r) /\ UNCHANGED << call, ret >>
        \/ Excel(r) /\ UNCHANGED << call, ret >>
        \/ Docx(r) /\ UNCHANGED << call, ret >>
        \/ Pdf(r) /\ UNCHANGED << call, ret >>
        \/ Return(r) /\ UNCHANGED << call, ret >>

\* Concurrent calls of generate_dpr_package.
Spec == Init /\ [][Next]_vars

\* generate_financials over its inputs.
InitFinanceCalls == InitFinance /\ NoRuns

NextFinance == ApplyFinancials /\ UNCHANGED orch_vars

SpecFinance == InitFinanceCalls /\ [][NextFinance]_vars

\* classify_project over its inputs.
InitClassifyCalls == InitClassify /\ NoRuns

NextClassify == ApplyClassify /\ UNCHANGED orch_vars

SpecClassify == InitClassifyCalls /\ [][NextClassify]_vars

\* generate_sections_with_openai over its inputs.
InitSectionsCalls == InitSections /\ NoRuns

NextSections == ApplySections /\ UNCHANGED orch_vars

SpecSections == InitSectionsCalls /\ [][NextSections]_vars

(***************************************************************************)
(* Properties                                                              *)
(***************************************************************************)
Computed == ret # Pending

IsPrefix(s, t) == Len(s) <= Len(t) /\ s = SubSeq(t, 1, Len(s))

\* Run r has completed `step`.
Has(r, step) == \E k \in DOMAIN log[r] : log[r][k] = step

\* The file uid+suffix of run r's namespace exists and run r wrote it last.
Wrote(r, suffix) ==
    /\ PathOf(local[r].uid, suffix) \in DOMAIN files
    /\ files[PathOf(local[r].uid, suffix)].by = r

FileOf(r, suffix) == files[PathOf(local[r].uid, suffix)].content

Terminated(r) == pc[r] \in {"returned", "raised"}

\* --- C2, C9: generate_financials ----------------------------------------
\* The value of an override in tenths, or its default.
OverrideOr(b, key, default) ==
    IF key \in DOMAIN b.additional THEN b.additional[key] ELSE 10 * default

\* df is the table the specification gives for brief b at capacity c: rows
\* Year 1..Year 5 in order, Revenue = c * price * (1 + 0.05 i),
\* VariableCost = c * variable * (1 + 0.03 i), FixedCost = fixed * (1 + 0.04 i)
\* and EBITDA = Revenue - VariableCost - FixedCost (all in milli).
RowsAsSpecified(b, c, df) ==
    /\ df.index = << "Year 1", "Year 2", "Year 3", "Year 4", "Year 5" >>
    /\ DOMAIN df.data = {"Revenue", "Variable Cost", "Fixed Cost", "EBITDA"}
    /\ \A i \in 0..4 :
         /\ df.data["Revenue"][i + 1] =
              c * OverrideOr(b, "price_per_unit", 100) * (100 + 5 * i)
         /\ df.data["Variable Cost"][i + 1] =
              c * OverrideOr(b, "variable_cost", 40) * (100 + 3 * i)
         /\ df.data["Fixed Cost"][i + 1] =
              OverrideOr(b, "fixed_annual", 200000) * (100 + 4 * i)
         /\ df.data["EBITDA"][i + 1] =
              df.data["Revenue"][i + 1] - df.data["Variable Cost"][i + 1]
                - df.data["Fixed Cost"][i + 1]

NumericCapacity(b) == "capacity" \in DOMAIN b /\ b.capacity.t = "int"

NoOverrides(b) == DOMAIN b.additional = {}

\* The example: capacity 2000 with the defaults gives EBITDA -80,000 in
\* Year 1 and -81,600 in Year 5.
ExampleHolds(b, df) ==
    (b.capacity.v = 2000 /\ NoOverrides(b)) =>
        /\ df.data["EBITDA"][1] = -80000 * 1000
        /\ df.data["EBITDA"][5] = -81600 * 1000

C9_NeverFailsOnCapacity ==
    (Computed /\ call.fn = "generate_financials"
        /\ ~(NumericCapacity(call.basic_inputs)
                /\ call.basic_inputs.capacity.v = 0)) =>
        /\ ~ret.raised
        /\ RowsAsSpecified(call.basic_inputs,
               IF NumericCapacity(call.basic_inputs)
               THEN call.basic_inputs.capacity.v ELSE 1000,
               ret.df)

\* --- C7: classify_project -----------------------------------------------
\* Characters a and b are the same letter, b being lower case.
SameLetter(a, b) ==
    a = b \/ \E k \in 1..26 : UpperLetters[k] = a /\ LowerLetters[k] = b

\* kw (lower case) occurs in desc, whatever the case of desc's letters.
OccursIgnoringCase(desc, kw) ==
    \E off \in 0..(Len(desc) - Len(kw)) :
        \A j \in 1..Len(kw) : SameLetter(desc[off + j], kw[j])

AgroGroup == { << "r","i","c","e" >>, << "a","g","r","i" >>,
               << "p","r","o","c","e","s","s","i","n","g" >>,
               << "f","a","r","m" >> }

EvGroup == { << "e","v" >>, << "c","h","a","r","g","i","n","g" >>,
             << "e","l","e","c","t","r","i","c"," ","v","e","h","i","c","l","e" >> }

HitsGroup(desc, group) == \E kw \in group : OccursIgnoringCase(desc, kw)

\* C7: classify_project returns agro_processing when the description
\* contains, in any case, one of rice/agri/processing/farm, otherwise
\* ev_charging when it contains one of ev/charging/electric vehicle,
\* otherwise default; it returns a type for every description.
C7_FirstMatchingGroupWins ==
    (Computed /\ call.fn = "classify_project") =>
        ret.project_type =
            IF HitsGroup(call.short_description, AgroGroup) THEN "agro_processing"
            ELSE IF HitsGroup(call.short_description, EvGroup) THEN "ev_charging"
            ELSE "default"

\* A description in mixed case that matches both groups was classified.
C7_BothGroupsMatched ==
    /\ Computed /\ call.fn = "classify_project"
    /\ call.short_description = << "E","V","R","i","c","e" >>
    /\ HitsGroup(call.short_description, AgroGroup)
    /\ HitsGroup(call.short_description, EvGroup)
    /\ ret.project_type = "agro_processing"

\* --- C3, C4: generate_sections_with_openai ------------------------------
\* The place of title t's first occurrence in outline o.
FirstAt(o, t) == CHOOSE k \in DOMAIN o : o[k] = t /\ \A j \in 1..(k - 1) : o[j] # t

\* keys are exactly the titles of outline o, each once, in o's order.
KeysFollowOutline(keys, o) ==
    /\ {keys[k] : k \in DOMAIN keys} = {o[k] : k \in DOMAIN o}
    /\ \A a, b \in DOMAIN keys : a < b => FirstAt(o, keys[a]) < FirstAt(o, keys[b])
    /\ (\A a, b \in DOMAIN o : a # b => o[a] # o[b]) => keys = o

\* C3: the map generate_sections_with_openai returns has exactly the
\* outline's titles as keys, in the outline's order, on the generative path
\* and on the placeholder path.
C3_KeysAreTheOutline ==
    (Computed /\ call.fn = "generate_sections_with_openai" /\ ~ret.raised) =>
        KeysFollowOutline(DictKeys(ret.content), call.sections)

\* A map was returned for an outline of several sections on the generative
\* path.
C3_MapReturned ==
    /\ Computed /\ call.fn = "generate_sections_with_openai"
    /\ call.available /\ ~ret.raised
    /\ Len(call.sections) >= 6
    /\ Len(ret.content) = Len(call.sections)

\* C4 as stated: on the generative path, when the service fails for one
\* section the function does not abort: that section gets the placeholder
\* body, every other section is requested and filled from the service.
C4_FailureIsolatedPerSection ==
    (Computed /\ call.fn = "generate_sections_with_openai"
        /\ call.available /\ call.failAt >= 1) =>
        /\ ~ret.raised
        /\ ret.requested = Len(call.sections)
        /\ KeysFollowOutline(DictKeys(ret.content), call.sections)
        /\ \A k \in DOMAIN ret.content :
             ret.content[k].value.kind =
                 IF ret.content[k].key = call.sections[call.failAt]
                 THEN "placeholder" ELSE "generated"

\* --- C1: one projection table behind the three artifacts -----------------
\* The spreadsheet of run r holds df: header Year + fields, one row per
\* year, each cell the table's number.
SheetHolds(r, df) ==
    LET sheet == FileOf(r, "_financials.xlsx") IN
    /\ sheet.header = << "Year", "Revenue", "Variable Cost", "Fixed Cost", "EBITDA" >>
    /\ DOMAIN sheet.rows = 1..5
    /\ \A k \in 1..5 :
         /\ sheet.rows[k].label = df.index[k]
         /\ \A j \in 1..4 :
              sheet.rows[k].cells[j] = df.data[sheet.header[j + 1]][k]

\* The chart of run r was drawn from df: one line per field over the years.
ChartHolds(r, df) ==
    LET chart == FileOf(r, "_finance.png") IN
    /\ chart.x = df.index
    /\ \A c \in DOMAIN df.data : \A k \in 1..5 : chart.lines[c][k] = df.data[c][k]

\* The narrative table of run r lists the fields of df in the order of the
\* spreadsheet, each cell (cents) within `slack` milli of the table's number.
NarrativeHolds(r, df, slack) ==
    LET doc == FileOf(r, "_dpr.docx") IN
    /\ doc.table_header = << "Year", "Revenue", "Variable Cost", "Fixed Cost", "EBITDA" >>
    /\ DOMAIN doc.table_rows = 1..5
    /\ \A k \in 1..5 :
         /\ doc.table_rows[k].label = df.index[k]
         /\ \A j \in 1..4 :
              LET shown == 10 * doc.table_rows[k].cells[j]
                  exact == df.data[doc.table_header[j + 1]][k]
              IN  shown - exact <= slack /\ exact - shown <= slack

ArtifactsHold(r, slack) ==
    Has(r, "financials") =>
        /\ local[r].df = generate_financials(payload[r]).df
        /\ Wrote(r, "_finance.png") => ChartHolds(r, local[r].df)
        /\ Wrote(r, "_financials.xlsx") => SheetHolds(r, local[r].df)
        /\ Wrote(r, "_dpr.docx") => NarrativeHolds(r, local[r].df, slack)

\* C1 as stated: chart, spreadsheet and narrative table are produced from
\* the one table generate_financials returned, unchanged in between, and
\* for every year and field the three values are equal.
C1_ThreeArtifactsEqual == \A r \in Runs : ArtifactsHold(r, 0)

\* C1 as amended: chart, spreadsheet and narrative table are produced from
\* the one table generate_financials returned, unchanged in between; chart
\* and spreadsheet hold its values as they are, the narrative table holds
\* each value rounded to two decimals (at most half a cent away), and
\* spreadsheet and narrative table list the same fields in the same order.
C1_NarrativeRoundsToCents == \A r \in Runs : ArtifactsHold(r, 5)

\* A run has returned with its three artifacts written and a narrative cell
\* that differs from the table's value.
C1_RoundedCellWritten ==
    \E r \in Runs :
        /\ pc[r] = "returned"
        /\ Wrote(r, "_finance.png") /\ Wrote(r, "_financials.xlsx")
        /\ Wrote(r, "_dpr.docx")
        /\ \E k \in 1..5, j \in 1..4 :
             10 * FileOf(r, "_dpr.docx").table_rows[k].cells[j]
                # local[r].df.data[DF_COLUMNS[j]][k]

\* --- C5, C6, C8: failures and namespaces ---------------------------------
ArtifactSuffixes == {"_finance.png", "_financials.xlsx", "_dpr.docx", "_summary.pdf"}

\* C5 as stated: a call ends with a complete package whose artifacts were
\* written, or, when a step after the namespace allocation failed, with a
\* structured failure naming the failed stage and listing the artifacts
\* written before it.
C5_PackageOrStructuredFailure ==
    \A r \in Runs :
        (Terminated(r) /\ Has(r, "mkdir")) =>
            \/ /\ outcome[r].kind = "package"
               /\ \A x \in {"_financials.xlsx", "_dpr.docx", "_summary.pdf"} :
                     PathOf(local[r].uid, x) \in DOMAIN files
            \/ /\ outcome[r].kind = "failure"
               /\ outcome[r].stage \in {"chart", "spreadsheet", "narrative", "summary"}
               /\ outcome[r].written =
                     {x \in ArtifactSuffixes : PathOf(local[r].uid, x) \in DOMAIN files}

\* C6 as stated: no run writes a file into a namespace directory that
\* another run allocated.
C6_NoWriteIntoForeignNamespace ==
    \A p \in DOMAIN files : p[1] \in DOMAIN dirs /\ dirs[p[1]] = files[p].by

HasTitle(b) == "title" \in DOMAIN b /\ Truthy(b.title)

\* C8 as stated: a call whose brief has no title creates no namespace
\* directory and writes no artifact, and ends with an InvalidBrief error.
C8_UntitledBriefFailsFast ==
    \A r \in Runs :
        ~HasTitle(payload[r]) =>
            /\ ~Has(r, "mkdir")
            /\ \A x \in ArtifactSuffixes : ~Wrote(r, x)
            /\ Terminated(r) => outcome[r] = Raised("InvalidBrief")

\* --- C10: the order of the steps ----------------------------------------
NotMkdir(step) == step # "mkdir"

\* What the order of the steps implies for the data: the directory is made
\* only after the sections are filled, an artifact is written only when the
\* projection exists, the summary only after chart and narrative.
DataFollowsOrder(r) ==
    /\ Has(r, "mkdir") =>
          DictKeys(local[r].sections) = local[r].template.sections
    /\ (\E x \in ArtifactSuffixes : Wrote(r, x)) => local[r].df # NoDf
    /\ Has(r, "pdf") => Has(r, "chart") /\ Has(r, "docx")

\* C10 as stated: classify, outline, external data, projection, sections,
\* namespace identifier, chart, spreadsheet, narrative, summary, return, in
\* this order; the identifier is allocated only after the sections are
\* filled.
C10_IdentifierAfterSections ==
    \A r \in Runs :
        /\ IsPrefix(SelectSeq(log[r], NotMkdir),
                    << "classify", "template", "external", "financials",
                       "sections", "uid", "chart", "excel", "docx", "pdf",
                       "return" >>)
        /\ local[r].uid # 0 => Has(r, "sections")
        /\ DataFollowsOrder(r)

\* C10 as amended: the identifier is drawn first; then classify, outline,
\* external data, projection, sections, creation of the namespace
\* directory, chart, spreadsheet, narrative, summary, return, in this order.
C10_IdentifierFirst ==
    \A r \in Runs :
        /\ IsPrefix(log[r],
                    << "uid", "classify", "template", "external", "financials",
                       "sections", "mkdir", "chart", "excel", "docx", "pdf",
                       "return" >>)
        /\ pc[r] = "returned" => Len(log[r]) = 12
        /\ Has(r, "classify") => local[r].uid # 0
        /\ DataFollowsOrder(r)

\* A run has gone through all its steps and returned its package.
C10_RunReturned ==
    \E r \in Runs :
        /\ pc[r] = "returned"
        /\ outcome[r].kind = "package"
        /\ Len(log[r]) = 12
        /\ Wrote(r, "_summary.pdf")

====
